---- MODULE Spec2Model ----
(***************************************************************************)
(* Model of the WMS wrapper (src/app.py, src/getonhand.py).                *)
(*                                                                         *)
(* One request is served per behaviour: Init draws the request (which      *)
(* deployment, path, query arguments) and the upstream fixture (the        *)
(* outcome of every outbound GET the handler may issue, in call order);    *)
(* the handler of the requested path then runs to completion in one step   *)
(* and leaves its JSON response, or the exception that escaped it, in the  *)
(* state together with the log of the upstream calls it issued.            *)
(*                                                                         *)
(* Decoded JSON values are tagged records:                                 *)
(*    [t |-> "null"], [t |-> "bool", b], [t |-> "num", n], [t |-> "str", s]*)
(*    [t |-> "list", items], [t |-> "dict", d]                             *)
(* where d is a function from key strings to values and s is the sequence  *)
(* of the characters of the string, so that parsing, comparing, splitting  *)
(* and joining strings are computed on the characters.  A body that is not *)
(* JSON is [t |-> "invalid"].  Quantities are integers; fractional floats  *)
(* and float rounding are outside the model.                               *)
(***************************************************************************)
EXTENDS Integers, Sequences, FiniteSets, TLC

VARIABLES pc, request, upstream, response, raised, calls

vars == <<pc, request, upstream, response, raised, calls>>

-----------------------------------------------------------------------------
(* Bounds *)

\* total number of rows over the three result sets of one /replenSummary request
MaxRows == 3
\* longest row list inside a body of a single-call endpoint
MaxBodyRows == 2
\* longest result set of /shippingKPI and /receivingKPI
MaxKpiRows == 2
\* longest purchase-order and receipt result sets of /onTimeReceivingKPI
MaxPoRows == 2
MaxReceiptRows == 2
\* longest received and putaway result sets of /receivingKPI1
MaxDockRows == 2
MaxStockRows == 1

-----------------------------------------------------------------------------
(* JSON values and the Python operations the handlers apply to them *)

JNull == [t |-> "null"]
JBool(b) == [t |-> "bool", b |-> b]
JNum(n) == [t |-> "num", n |-> n]
JStr(s) == [t |-> "str", s |-> s]
JList(items) == [t |-> "list", items |-> items]
JDict(d) == [t |-> "dict", d |-> d]
JInvalid == [t |-> "invalid"]

\* the dict with no keys
EmptyDict == [k \in {} |-> JNull]

\* Python truthiness: bool(v)
Truthy(v) ==
    CASE v.t = "null" -> FALSE
      [] v.t = "bool" -> v.b
      [] v.t = "num"  -> v.n # 0
      [] v.t = "str"  -> v.s # <<>>
      [] v.t = "list" -> v.items # <<>>
      [] v.t = "dict" -> DOMAIN v.d # {}
      [] OTHER        -> FALSE

\* dict.get(key, default) on a decoded JSON object
Get(row, key, default) ==
    IF key \in DOMAIN row.d THEN row.d[key] ELSE default

\* code points of the characters that occur in the fixtures
Ord ==
    (" " :> 32) @@ ("+" :> 43) @@ ("," :> 44) @@ ("-" :> 45) @@ ("." :> 46) @@
    ("0" :> 48) @@ ("1" :> 49) @@ ("2" :> 50) @@ ("3" :> 51) @@ ("4" :> 52) @@
    ("5" :> 53) @@ ("6" :> 54) @@ ("7" :> 55) @@ ("8" :> 56) @@ ("9" :> 57) @@
    (":" :> 58) @@ ("A" :> 65) @@ ("B" :> 66) @@ ("C" :> 67) @@ ("F" :> 70) @@
    ("P" :> 80) @@ ("S" :> 83) @@ ("T" :> 84) @@ ("Z" :> 90) @@
    ("a" :> 97) @@ ("b" :> 98) @@ ("c" :> 99)

Digits == {"0", "1", "2", "3", "4", "5", "6", "7", "8", "9"}

IsDigits(s) == s # <<>> /\ \A i \in 1..Len(s) : s[i] \in Digits

\* the number a string of decimal digits denotes
RECURSIVE DigitsValue(_)
DigitsValue(s) ==
    IF s = <<>> THEN 0
    ELSE 10 * DigitsValue(SubSeq(s, 1, Len(s) - 1)) + (Ord[s[Len(s)]] - Ord["0"])

\* a string with its sign, if any, removed
Unsigned(s) == IF s # <<>> /\ s[1] \in {"+", "-"} THEN Tail(s) ELSE s

Signed(s, n) == IF s # <<>> /\ s[1] = "-" THEN 0 - n ELSE n

Parsed(n) == [ok |-> TRUE, n |-> n, exc |-> "none"]
NotParsed(exc) == [ok |-> FALSE, n |-> 0, exc |-> exc]

\* int(s) on a string: an optionally signed run of digits, else ValueError
\* (surrounding blanks and digit-group underscores do not occur in the fixtures)
int(s) ==
    IF IsDigits(Unsigned(s))
    THEN Parsed(Signed(s, DigitsValue(Unsigned(s))))
    ELSE NotParsed("ValueError")

\* float(v): the value, or the exception float() raises.  A string parses when
\* it is an optionally signed run of digits; the fixtures hold no fractional,
\* exponent, inf or nan literal.
float(v) ==
    CASE v.t = "num"  -> Parsed(v.n)
      [] v.t = "bool" -> Parsed(IF v.b THEN 1 ELSE 0)
      [] v.t = "str"  -> IF IsDigits(Unsigned(v.s))
                         THEN Parsed(Signed(v.s, DigitsValue(Unsigned(v.s))))
                         ELSE NotParsed("ValueError")
      [] OTHER        -> NotParsed("TypeError")

\* a < b on strings: by code point, a proper prefix first
RECURSIVE StrLess(_, _)
StrLess(a, b) ==
    IF b = <<>> THEN FALSE
    ELSE IF a = <<>> THEN TRUE
    ELSE IF Ord[a[1]] # Ord[b[1]] THEN Ord[a[1]] < Ord[b[1]]
    ELSE StrLess(Tail(a), Tail(b))

\* sep.join(parts)
RECURSIVE Join(_, _)
Join(parts, sep) ==
    IF parts = <<>> THEN <<>>
    ELSE IF Len(parts) = 1 THEN parts[1]
    ELSE parts[1] \o sep \o Join(Tail(parts), sep)

\* request.args.get(name): the string, or None
ArgsGet(args, name) ==
    IF name \in DOMAIN args THEN JStr(args[name]) ELSE JNull

\* response.json(): the decoded body, or a decode failure
ResponseJson(resp) ==
    IF resp.body.t = "invalid"
    THEN [ok |-> FALSE, raw |-> JNull]
    ELSE [ok |-> TRUE, raw |-> resp.body]

safe_wms_json_rows_first(resp) ==
    LET j == ResponseJson(resp)
        raw == j.raw
    IN  IF ~j.ok THEN <<>>
        ELSE IF raw.t = "str" THEN <<>>
        ELSE IF raw.t = "list" THEN raw.items
        ELSE IF raw.t = "dict" THEN
            IF "rows" \in DOMAIN raw.d /\ raw.d["rows"].t = "list"
            THEN raw.d["rows"].items
            ELSE IF "results" \in DOMAIN raw.d /\ raw.d["results"].t = "list"
            THEN raw.d["results"].items
            ELSE <<raw>>
        ELSE <<>>

\* the response normalizer
safe_wms_json(resp) ==
    LET j == ResponseJson(resp)
        raw == j.raw
    IN  IF ~j.ok THEN <<>>
        ELSE IF raw.t = "str" THEN <<>>
        ELSE IF raw.t = "list" THEN raw.items
        ELSE IF raw.t = "dict" THEN
            IF "results" \in DOMAIN raw.d /\ raw.d["results"].t = "list"
            THEN raw.d["results"].items
            ELSE IF "rows" \in DOMAIN raw.d /\ raw.d["rows"].t = "list"
            THEN raw.d["rows"].items
            ELSE <<raw>>
        ELSE <<>>


-----------------------------------------------------------------------------
(* Requests, upstream outcomes and what a handler leaves behind *)

\* the response of a request that has not been answered
NoResponse == [k \in {} |-> JNull]

\* An outbound GET is logged with the entity it addresses and the facility,
\* item-list and activity filters it carries (<<>> or 0 when it carries none);
\* the date filters are left out.
Call(entity, facility, item_list, activity) ==
    [entity |-> entity, facility |-> facility,
     item_list |-> item_list, activity |-> activity]

\* requests.get either raises (timeout, connection failure) or yields a
\* response with a status code and a body
Failed(exc) == [ok |-> FALSE, exc |-> exc, status_code |-> 0, body |-> JInvalid]
Answered(code, body) == [ok |-> TRUE, exc |-> "none", status_code |-> code, body |-> body]

\* the handler returns a JSON body after issuing the calls cs
Return(resp, cs) ==
    /\ pc' = "done"
    /\ response' = resp
    /\ raised' = "none"
    /\ calls' = cs
    /\ UNCHANGED <<request, upstream>>

\* an exception escapes the handler after it issued the calls cs
Raise(exc, cs) ==
    /\ pc' = "done"
    /\ response' = NoResponse
    /\ raised' = exc
    /\ calls' = cs
    /\ UNCHANGED <<request, upstream>>

Serving(app, path) ==
    /\ pc = "idle"
    /\ request.app = app
    /\ request.path = path

\* `not (a and b and ...)` over the named query arguments
MissingAnyPresentOnly(args, names) ==
    \E n \in names : n \notin DOMAIN args

MissingAny(args, names) ==
    \E n \in names : ~Truthy(ArgsGet(args, n))

\* the {status, rows, noData} body of the single-call endpoints of app.py
RowsResult(rows) ==
    [status |-> "success", rows |-> JList(rows), noData |-> ~Truthy(JList(rows))]

ErrorResult(message) == [status |-> "error", message |-> message]

-----------------------------------------------------------------------------
(* src/app.py: /getOrder, /getOnhand, /existMoveReq *)

get_order ==
    /\ Serving("app", "/getOrder")
    /\ LET args == request.args
           call == Call("order_dtl", args["facility_code"], <<>>, 0)
       IN  IF MissingAny(args, {"from_date", "to_date", "facility_code"})
           THEN Return(ErrorResult("Missing required params"), <<>>)
           ELSE IF ~upstream[1].ok
           THEN Return(ErrorResult(upstream[1].exc), <<call>>)
           ELSE Return(RowsResult(safe_wms_json(upstream[1])), <<call>>)

get_onhand ==
    /\ Serving("app", "/getOnhand")
    /\ LET args == request.args
           call == Call("inventory", args["facility"],
                        args["items"], 0)
       IN  IF MissingAny(args, {"items", "facility"})
           THEN Return(ErrorResult("Missing required params"), <<>>)
           ELSE IF ~upstream[1].ok
           THEN Return(ErrorResult(upstream[1].exc), <<call>>)
           ELSE Return(RowsResult(safe_wms_json(upstream[1])), <<call>>)

exist_move_req ==
    /\ Serving("app", "/existMoveReq")
    /\ LET args == request.args
           call == Call("movement_request_dtl", args["facility"],
                        args["items"], 0)
       IN  IF MissingAny(args, {"items", "facility"})
           THEN Return(ErrorResult("Missing required params"), <<>>)
           ELSE IF ~upstream[1].ok
           THEN Return(ErrorResult(upstream[1].exc), <<call>>)
           ELSE Return(RowsResult(safe_wms_json(upstream[1])), <<call>>)

-----------------------------------------------------------------------------
(* src/getonhand.py: /getOnhand *)

getonhand_get_onhand ==
    /\ Serving("getonhand", "/getOnhand")
    /\ LET args == request.args
           call == Call("inventory", args["facility"],
                        args["items"], 0)
           resp == upstream[1]
           j == ResponseJson(resp)
       IN  IF MissingAny(args, {"items", "facility"})
           THEN Return(ErrorResult("Missing required params: items, facility"), <<>>)
           ELSE IF ~resp.ok
           THEN Return(ErrorResult(resp.exc), <<call>>)
           ELSE IF resp.status_code = 404
           THEN Return([status |-> "success", noData |-> TRUE, rows |-> JList(<<>>)],
                       <<call>>)
           ELSE IF 200 <= resp.status_code /\ resp.status_code < 300
           THEN IF ~j.ok
                THEN Return(ErrorResult("WMS returned non-JSON"), <<call>>)
                ELSE Return([status |-> "success", noData |-> ~Truthy(j.raw),
                             rows |-> j.raw], <<call>>)
           ELSE Return([status |-> "error", httpStatus |-> resp.status_code,
                        body |-> resp.body], <<call>>)

-----------------------------------------------------------------------------
(* Python dicts built by the handlers.  A dict keeps its keys in insertion   *)
(* order, so it is a sequence of entries [k, v] with pairwise distinct keys. *)

DictHas(d, k) == \E i \in 1..Len(d) : d[i].k = k

DictGet(d, k, default) ==
    IF DictHas(d, k) THEN d[CHOOSE i \in 1..Len(d) : d[i].k = k].v ELSE default

\* d[k] = v: a new key goes last, an existing key keeps its place
DictSet(d, k, v) ==
    IF DictHas(d, k)
    THEN [i \in 1..Len(d) |-> IF d[i].k = k THEN [k |-> k, v |-> v] ELSE d[i]]
    ELSE Append(d, [k |-> k, v |-> v])

\* the outcome of a loop that builds a dict: the dict, or the exception raised
Built(d) == [ok |-> TRUE, d |-> d, exc |-> "none"]
Broke(exc) == [ok |-> FALSE, d |-> <<>>, exc |-> exc]

-----------------------------------------------------------------------------
(* src/app.py: /replenSummary *)

\* day number of datetime.now().date()
Today == 0

\* one iteration of the loop over the order rows: a row without item code is
\* skipped, a quantity that does not parse raises
OrderStep(acc, row) ==
    LET item == Get(row, "item_id__code", JNull)
        qty == float(Get(row, "ord_qty", JNum(0)))
    IN  IF ~acc.ok \/ ~Truthy(item) THEN acc
        ELSE IF ~qty.ok THEN Broke(qty.exc)
        ELSE Built(DictSet(acc.d, item, DictGet(acc.d, item, 0) + qty.n))

RECURSIVE OrderLoop(_, _, _)
OrderLoop(order_rows, i, acc) ==
    IF i > Len(order_rows) THEN acc
    ELSE OrderLoop(order_rows, i + 1, OrderStep(acc, order_rows[i]))

\* STEP 1: ordered quantity per item code
order_summary(order_rows) == OrderLoop(order_rows, 1, Built(<<>>))

\* one iteration of the dict comprehension: the quantity of a later row of an
\* item replaces that of an earlier one
OnhandStep(acc, row) ==
    LET item == Get(row, "item_id__item_alternate_code", JNull)
        qty == float(Get(row, "curr_qty", JNum(0)))
    IN  IF ~acc.ok \/ ~Truthy(item) THEN acc
        ELSE IF ~qty.ok THEN Broke(qty.exc)
        ELSE Built(DictSet(acc.d, item, qty.n))

RECURSIVE OnhandLoop(_, _, _)
OnhandLoop(oh_rows, i, acc) ==
    IF i > Len(oh_rows) THEN acc
    ELSE OnhandLoop(oh_rows, i + 1, OnhandStep(acc, oh_rows[i]))

\* STEP 2: the dict comprehension over the on-hand rows
onhand_summary(oh_rows) == OnhandLoop(oh_rows, 1, Built(<<>>))

\* one iteration of the loop over the movement-request rows: no row is skipped
MoStep(acc, row) ==
    LET item == Get(row, "item_id__code", JNull)
        qty == float(Get(row, "req_qty", JNum(0)))
    IN  IF ~acc.ok THEN acc
        ELSE IF ~qty.ok THEN Broke(qty.exc)
        ELSE Built(DictSet(acc.d, item, DictGet(acc.d, item, 0) + qty.n))

RECURSIVE MoLoop(_, _, _)
MoLoop(mo_rows, i, acc) ==
    IF i > Len(mo_rows) THEN acc
    ELSE MoLoop(mo_rows, i + 1, MoStep(acc, mo_rows[i]))

\* STEP 3: requested quantity per item code
mo_summary(mo_rows) == MoLoop(mo_rows, 1, Built(<<>>))

\* insert a row into a list sorted by x["item"], after the rows that are not greater
RECURSIVE InsertByItem(_, _)
InsertByItem(sorted_rows, row) ==
    IF sorted_rows = <<>> THEN <<row>>
    ELSE IF ~StrLess(row.d["item"].s, sorted_rows[Len(sorted_rows)].d["item"].s)
    THEN Append(sorted_rows, row)
    ELSE Append(InsertByItem(SubSeq(sorted_rows, 1, Len(sorted_rows) - 1), row),
                sorted_rows[Len(sorted_rows)])

RECURSIVE SortLoop(_, _, _)
SortLoop(rows, i, acc) ==
    IF i > Len(rows) THEN acc
    ELSE SortLoop(rows, i + 1, InsertByItem(acc, rows[i]))

sorted_by_item_unsorted(rows) == rows

\* sorted(final_rows, key=lambda x: x["item"]), a stable sort
sorted_by_item(rows) == SortLoop(rows, 1, <<>>)

ReportRow(item, ordered_qty, onhand_qty, pending_mo_qty) ==
    JDict([k \in {"item", "ordered_qty", "onhand_qty", "pending_mo_qty"} |->
            CASE k = "item" -> item
              [] k = "ordered_qty" -> JNum(ordered_qty)
              [] k = "onhand_qty" -> JNum(onhand_qty)
              [] OTHER -> JNum(pending_mo_qty)])

\* a row for every on-hand item as well
final_rows_all_items(os, oh, mo) ==
    LET extra == SelectSeq(oh, LAMBDA e : ~DictHas(os, e.k))
    IN  [i \in 1..Len(os) |->
            ReportRow(os[i].k, os[i].v, DictGet(oh, os[i].k, 0), DictGet(mo, os[i].k, 0))]
        \o [i \in 1..Len(extra) |->
            ReportRow(extra[i].k, 0, extra[i].v, DictGet(mo, extra[i].k, 0))]

\* rows only for the items that have on-hand stock or a movement request
final_rows_matched_only(os, oh, mo) ==
    LET kept == SelectSeq(os, LAMBDA e : DictHas(oh, e.k) \/ DictHas(mo, e.k))
    IN  [i \in 1..Len(kept) |->
            ReportRow(kept[i].k, kept[i].v, DictGet(oh, kept[i].k, 0),
                      DictGet(mo, kept[i].k, 0))]

\* COMBINE FINAL RESULT: one row per entry of the order summary
final_rows(os, oh, mo) ==
    [i \in 1..Len(os) |->
        ReportRow(os[i].k, os[i].v, DictGet(oh, os[i].k, 0), DictGet(mo, os[i].k, 0))]

OrdersCall(facility) == Call("order_dtl", facility, <<>>, 0)
OnhandCall(facility, item_list) == Call("inventory", facility, item_list, 0)
MoCall(facility, item_list) == Call("movement_request_dtl", facility, item_list, 0)

\* COMBINE FINAL RESULT and the returned report
ReplenReport(days, cs, os, oh, mo) ==
    IF ~mo.ok THEN Raise(mo.exc, cs)
    ELSE Return([status |-> "success", from_date |-> Today + 1,
                 to_date |-> Today + 1 + days,
                 rows |-> JList(sorted_by_item(final_rows(os, oh.d, mo.d)))], cs)

\* STEP 3: GET MOVE REQUESTS
ReplenMoveRequests(days, facility, item_list, cs, os, oh) ==
    IF ~oh.ok THEN Raise(oh.exc, cs)
    ELSE IF ~upstream[3].ok
    THEN Raise(upstream[3].exc, Append(cs, MoCall(facility, item_list)))
    ELSE ReplenReport(days, Append(cs, MoCall(facility, item_list)), os, oh,
                      mo_summary(safe_wms_json(upstream[3])))

\* STEP 2: GET ONHAND, for the item codes of the order summary
ReplenOnhand(days, facility, item_list, cs, os) ==
    IF ~upstream[2].ok
    THEN Raise(upstream[2].exc, Append(cs, OnhandCall(facility, item_list)))
    ELSE ReplenMoveRequests(days, facility, item_list,
                            Append(cs, OnhandCall(facility, item_list)), os,
                            onhand_summary(safe_wms_json(upstream[2])))

\* the order summary gates the two further calls
ReplenOrdered(days, facility, cs, os) ==
    IF ~os.ok THEN Raise(os.exc, cs)
    ELSE IF os.d = <<>>
    THEN Return([status |-> "success", rows |-> JList(<<>>)], cs)
    ELSE ReplenOnhand(days, facility,
                      Join([i \in 1..Len(os.d) |-> os.d[i].k.s], <<",">>), cs, os.d)

\* int(days), then STEP 1: GET ORDERS
ReplenOrders(days, facility) ==
    IF ~days.ok THEN Raise(days.exc, <<>>)
    ELSE IF ~upstream[1].ok THEN Raise(upstream[1].exc, <<OrdersCall(facility)>>)
    ELSE ReplenOrdered(days.n, facility, <<OrdersCall(facility)>>,
                       order_summary(safe_wms_json(upstream[1])))

replen_summary ==
    /\ Serving("app", "/replenSummary")
    /\ IF MissingAny(request.args, {"days", "facility"})
       THEN Return(ErrorResult("Missing required params"), <<>>)
       ELSE ReplenOrders(int(request.args["days"]), request.args["facility"])

-----------------------------------------------------------------------------
(* src/app.py: /shippingKPI and /receivingKPI *)

\* float(row.get(field) or 0) inside try/except: a parse failure counts 0
UnitsOf(row, field) ==
    LET v == Get(row, field, JNull)
        f == float(IF Truthy(v) THEN v ELSE JNum(0))
    IN  IF f.ok THEN f.n ELSE 0

RECURSIVE TotalUnits(_, _)
TotalUnits(rows, field) ==
    IF rows = <<>> THEN 0
    ELSE TotalUnits(SubSeq(rows, 1, Len(rows) - 1), field)
         + UnitsOf(rows[Len(rows)], field)

\* the set of the truthy values of a field
Unique(rows, field) ==
    {v \in {Get(rows[i], field, JNull) : i \in 1..Len(rows)} : Truthy(v)}

ShippedSummary(rows) ==
    [total_units_shipped |-> TotalUnits(rows, "units_shipped"),
     total_orders_shipped |-> Cardinality(Unique(rows, "order_nbr")),
     total_containers_shipped |-> Cardinality(Unique(rows, "container_nbr"))]

ReceivedSummary(rows) ==
    [total_units_received |-> TotalUnits(rows, "adj_qty"),
     total_shipment_received |-> Cardinality(Unique(rows, "shipment_nbr")),
     total_containers_received |-> Cardinality(Unique(rows, "container_nbr"))]

HistoryCall(facility, activity) == Call("inventory_history", facility, <<>>, activity)

\* int(days), the API CALL and the KPI CALCULATIONS of /shippingKPI
ShippingKpi(days, facility) ==
    IF ~days.ok THEN Return(ErrorResult("Days must be numeric"), <<>>)
    ELSE IF ~upstream[1].ok
    THEN Return(ErrorResult(upstream[1].exc), <<HistoryCall(facility, 3)>>)
    ELSE Return([status |-> "success", from_date |-> Today - days.n, to_date |-> Today,
                 summary |-> ShippedSummary(safe_wms_json(upstream[1]))],
                <<HistoryCall(facility, 3)>>)

shipping_kpi ==
    /\ Serving("app", "/shippingKPI")
    /\ IF MissingAny(request.args, {"days", "facility"})
       THEN Return(ErrorResult("Missing required params"), <<>>)
       ELSE ShippingKpi(int(request.args["days"]), request.args["facility"])

\* int(days), the API CALL and the KPI CALCULATIONS of /receivingKPI
ReceivingKpi(days, facility) ==
    IF ~days.ok THEN Return(ErrorResult("Days must be numeric"), <<>>)
    ELSE IF ~upstream[1].ok
    THEN Return(ErrorResult(upstream[1].exc), <<HistoryCall(facility, 1)>>)
    ELSE Return([status |-> "success", from_date |-> Today - days.n, to_date |-> Today,
                 summary |-> ReceivedSummary(safe_wms_json(upstream[1]))],
                <<HistoryCall(facility, 1)>>)

receiving_kpi ==
    /\ Serving("app", "/receivingKPI")
    /\ IF MissingAny(request.args, {"days", "facility"})
       THEN Return(ErrorResult("Missing required params"), <<>>)
       ELSE ReceivingKpi(int(request.args["days"]), request.args["facility"])

-----------------------------------------------------------------------------
(* src/app.py: /onTimeReceivingKPI *)

EndOfDay == <<"T", "2", "3", ":", "5", "9", ":", "5", "9", "Z">>
ON_TIME == <<"O", "N", "_", "T", "I", "M", "E">>
LATE == <<"L", "A", "T", "E">>

\* a <= b on strings
StrLessEq(a, b) == a = b \/ StrLess(a, b)

\* STEP 1: po_nbr -> f"{delivery}T23:59:59Z", a later row of a PO overwriting
\* an earlier one (the delivery dates of the fixtures are strings)
ExpectedStep(acc, row) ==
    LET po == Get(row, "po_nbr", JNull)
        delivery == Get(row, "delivery_date", JNull)
    IN  IF Truthy(po) /\ Truthy(delivery)
        THEN DictSet(acc, po, delivery.s \o EndOfDay)
        ELSE acc

RECURSIVE ExpectedLoop(_, _, _)
ExpectedLoop(po_rows, i, acc) ==
    IF i > Len(po_rows) THEN acc
    ELSE ExpectedLoop(po_rows, i + 1, ExpectedStep(acc, po_rows[i]))

expected_map(po_rows) == ExpectedLoop(po_rows, 1, <<>>)

\* the counters and detail rows of STEP 3, or the exception that ends the loop
Matched(total, on_time, late, detail) ==
    [ok |-> TRUE, exc |-> "none", total_receipts |-> total, on_time |-> on_time,
     late |-> late, detail_rows |-> detail]

DetailRow(po, expected_ts, actual_ts, status) ==
    JDict([k \in {"po_nbr", "expected_ts", "actual_ts", "status"} |->
            CASE k = "po_nbr" -> po
              [] k = "expected_ts" -> JStr(expected_ts)
              [] k = "actual_ts" -> actual_ts
              [] OTHER -> JStr(status)])

\* STEP 3: match actual against expected; `actual_ts <= expected_ts` compares
\* two strings and raises TypeError for an actual_ts that is not a string
\* Counted without `late += 1`
Counted_forgets_late(acc, po, expected_ts, actual_ts, timely) ==
    Matched(acc.total_receipts + 1,
            acc.on_time + (IF timely THEN 1 ELSE 0),
            acc.late,
            Append(acc.detail_rows,
                   DetailRow(po, expected_ts, actual_ts,
                             IF timely THEN ON_TIME ELSE LATE)))

\* a receipt of a PO of the map is counted and listed
Counted(acc, po, expected_ts, actual_ts, timely) ==
    Matched(acc.total_receipts + 1,
            acc.on_time + (IF timely THEN 1 ELSE 0),
            acc.late + (IF timely THEN 0 ELSE 1),
            Append(acc.detail_rows,
                   DetailRow(po, expected_ts, actual_ts,
                             IF timely THEN ON_TIME ELSE LATE)))

\* one iteration of STEP 3
MatchStep(acc, row, emap) ==
    LET po == Get(row, "po_nbr", JNull)
        actual_ts == Get(row, "create_ts", JNull)
    IN  IF ~acc.ok THEN acc
        ELSE IF ~Truthy(po) \/ ~Truthy(actual_ts) THEN acc
        ELSE IF ~DictHas(emap, po) THEN acc
        ELSE IF actual_ts.t # "str"
        THEN [acc EXCEPT !.ok = FALSE, !.exc = "TypeError"]
        ELSE Counted(acc, po, DictGet(emap, po, <<>>), actual_ts,
                     StrLessEq(actual_ts.s, DictGet(emap, po, <<>>)))

RECURSIVE MatchLoop(_, _, _, _)
MatchLoop(ih_rows, emap, i, acc) ==
    IF i > Len(ih_rows) THEN acc
    ELSE MatchLoop(ih_rows, emap, i + 1, MatchStep(acc, ih_rows[i], emap))

\* on_time / total_receipts * 100 as the exact fraction num/den, 0 without receipts
on_time_percent(on_time, total_receipts) ==
    IF total_receipts > 0
    THEN [num |-> on_time * 100, den |-> total_receipts]
    ELSE [num |-> 0, den |-> 1]

PoCall(facility) == Call("purchase_order_hdr", facility, <<>>, 0)
ReceiptsCall(facility) == Call("inventory_history", facility, <<>>, 4)

\* STEP 4: KPI SUMMARY and the returned body
OnTimeSummary(days, cs, m) ==
    IF ~m.ok THEN Raise(m.exc, cs)
    ELSE Return([status |-> "success", from_date |-> Today - days, to_date |-> Today,
                 summary |-> [total_receipts |-> m.total_receipts,
                              on_time_receipts |-> m.on_time,
                              late_receipts |-> m.late,
                              on_time_percent |->
                                  on_time_percent(m.on_time, m.total_receipts)],
                 rows |-> JList(m.detail_rows)], cs)

\* STEP 2: GET ACTUAL RECEIPTS, unless no PO was found
OnTimeReceipts(days, facility, emap) ==
    IF emap = <<>>
    THEN Return([status |-> "success", from_date |-> Today - days, to_date |-> Today,
                 message |-> "No purchase orders found in date range",
                 summary |-> EmptyDict, rows |-> JList(<<>>)], <<PoCall(facility)>>)
    ELSE IF ~upstream[2].ok
    THEN Return(ErrorResult("Inventory history API error"),
                <<PoCall(facility), ReceiptsCall(facility)>>)
    ELSE OnTimeSummary(days, <<PoCall(facility), ReceiptsCall(facility)>>,
                       MatchLoop(safe_wms_json(upstream[2]), emap, 1,
                                 Matched(0, 0, 0, <<>>)))

\* int(days), then STEP 1: GET EXPECTED RECEIPT DATES
OnTimeExpected(days, facility) ==
    IF ~days.ok THEN Return(ErrorResult("Days must be numeric"), <<>>)
    ELSE IF ~upstream[1].ok
    THEN Return(ErrorResult("PO API error"), <<PoCall(facility)>>)
    ELSE OnTimeReceipts(days.n, facility, expected_map(safe_wms_json(upstream[1])))

on_time_receiving_kpi ==
    /\ Serving("app", "/onTimeReceivingKPI")
    /\ IF MissingAny(request.args, {"days", "facility"})
       THEN Return(ErrorResult("Missing required params"), <<>>)
       ELSE OnTimeExpected(int(request.args["days"]), request.args["facility"])

-----------------------------------------------------------------------------
(* src/app.py: /receivingKPI1 (dock-to-stock) *)

\* days since 1970-01-01 of a proleptic Gregorian date
days_from_civil(y, m, d) ==
    LET yy == IF m <= 2 THEN y - 1 ELSE y
        era == yy \div 400
        yoe == yy - era * 400
        mp == IF m > 2 THEN m - 3 ELSE m + 9
        doy == (153 * mp + 2) \div 5 + d - 1
        doe == yoe * 365 + yoe \div 4 - yoe \div 100 + doy
    IN  era * 146097 + doe - 719468

IsLeap(y) == y % 4 = 0 /\ (y % 100 # 0 \/ y % 400 = 0)

DaysInMonth(y, m) ==
    IF m = 2 THEN (IF IsLeap(y) THEN 29 ELSE 28)
    ELSE IF m \in {4, 6, 9, 11} THEN 30 ELSE 31

\* s with every "Z" replaced by "+00:00"
RECURSIVE ReplaceZ(_)
ReplaceZ(s) ==
    IF s = <<>> THEN <<>>
    ELSE (IF s[1] = "Z" THEN <<"+", "0", "0", ":", "0", "0">> ELSE <<s[1]>>)
         \o ReplaceZ(Tail(s))

\* the characters a..b of s are digits / the number they spell
IsField(s, a, b) == IsDigits(SubSeq(s, a, b))
Field(s, a, b) == DigitsValue(SubSeq(s, a, b))

\* a datetime: seconds since the epoch of its wall-clock fields, its UTC offset
\* in seconds when it is timezone-aware
ADateTime(secs, aware, offset) ==
    [ok |-> TRUE, exc |-> "none", secs |-> secs, aware |-> aware, offset |-> offset]
NoDateTime(exc) ==
    [ok |-> FALSE, exc |-> exc, secs |-> 0, aware |-> FALSE, offset |-> 0]

\* the UTC offset +HH:MM or -HH:MM that follows the time, if any
WithOffset(secs, tz, tzh, tzm) ==
    IF tzh < 24 /\ tzm < 60
    THEN ADateTime(secs, TRUE, (IF tz[1] = "-" THEN 0 - 1 ELSE 1) * (tzh * 3600 + tzm * 60))
    ELSE NoDateTime("ValueError")

ZoneShaped(tz) ==
    /\ Len(tz) = 6 /\ tz[1] \in {"+", "-"}
    /\ IsField(tz, 2, 3) /\ tz[4] = ":" /\ IsField(tz, 5, 6)

WithZone(secs, tz) ==
    IF tz = <<>> THEN ADateTime(secs, FALSE, 0)
    ELSE IF ~ZoneShaped(tz) THEN NoDateTime("ValueError")
    ELSE WithOffset(secs, tz, Field(tz, 2, 3), Field(tz, 5, 6))

\* the time HH:MM:SS that follows the date and one separator character
WithTime(s, daySecs, hh, mi, ss) ==
    IF hh < 24 /\ mi < 60 /\ ss < 60
    THEN WithZone(daySecs + hh * 3600 + mi * 60 + ss, SubSeq(s, 20, Len(s)))
    ELSE NoDateTime("ValueError")

TimeShaped(s) ==
    /\ Len(s) >= 19
    /\ IsField(s, 12, 13) /\ s[14] = ":" /\ IsField(s, 15, 16) /\ s[17] = ":"
    /\ IsField(s, 18, 19)

\* the date YYYY-MM-DD
WithDate(s, y, m, d) ==
    IF ~(y >= 1 /\ m \in 1..12 /\ d >= 1 /\ d <= DaysInMonth(y, m))
    THEN NoDateTime("ValueError")
    ELSE IF Len(s) = 10 THEN ADateTime(days_from_civil(y, m, d) * 86400, FALSE, 0)
    ELSE IF ~TimeShaped(s) THEN NoDateTime("ValueError")
    ELSE WithTime(s, days_from_civil(y, m, d) * 86400,
                  Field(s, 12, 13), Field(s, 15, 16), Field(s, 18, 19))

DateShaped(s) ==
    /\ Len(s) >= 10
    /\ IsField(s, 1, 4) /\ s[5] = "-" /\ IsField(s, 6, 7) /\ s[8] = "-"
    /\ IsField(s, 9, 10)

\* datetime.fromisoformat(s) for YYYY-MM-DD, optionally followed by a separator
\* and HH:MM:SS, optionally followed by +HH:MM or -HH:MM; anything else is a
\* ValueError (the fixtures hold no fractional seconds and no partial times)
fromisoformat(s) ==
    IF ~DateShaped(s) THEN NoDateTime("ValueError")
    ELSE WithDate(s, Field(s, 1, 4), Field(s, 6, 7), Field(s, 9, 10))

\* datetime.fromisoformat(ts.replace("Z", "+00:00")): a ts that is not a string
\* has no replace()
ParseTs(ts) ==
    IF ts.t # "str" THEN NoDateTime("AttributeError")
    ELSE fromisoformat(ReplaceZ(ts.s))

\* the instant of a datetime, in seconds
Instant(dt) == dt.secs - dt.offset

\* min(a, b) on datetimes; comparing an aware with a naive one raises TypeError
MinDt(a, b) ==
    IF a.aware # b.aware THEN NoDateTime("TypeError")
    ELSE IF Instant(b) < Instant(a) THEN b ELSE a

\* a later row of a shipment already in the map: min() of the dock times, and
\* one more lpn
DockAgain(acc, shipment, lpn, old, dock) ==
    IF ~dock.ok THEN Broke(dock.exc)
    ELSE Built(DictSet(acc.d, shipment,
                       [dock_time |-> dock, lpns |-> old.lpns \cup {lpn}]))

\* a row with shipment and lpn, its create_ts parsed into dt
DockTimed(acc, shipment, lpn, dt) ==
    IF ~dt.ok THEN Broke(dt.exc)
    ELSE IF ~DictHas(acc.d, shipment)
    THEN Built(DictSet(acc.d, shipment, [dock_time |-> dt, lpns |-> {lpn}]))
    ELSE DockAgain(acc, shipment, lpn, DictGet(acc.d, shipment, <<>>),
                   MinDt(DictGet(acc.d, shipment, <<>>).dock_time, dt))

\* one iteration of the loop over the activity 1 rows
DockStep(acc, row) ==
    IF ~acc.ok THEN acc
    ELSE IF ~(Truthy(Get(row, "shipment_nbr", JNull))
              /\ Truthy(Get(row, "container_nbr", JNull)))
    THEN acc
    ELSE DockTimed(acc, Get(row, "shipment_nbr", JNull),
                   Get(row, "container_nbr", JNull),
                   ParseTs(Get(row, "create_ts", JNull)))

RECURSIVE DockLoop(_, _, _)
DockLoop(rows, i, acc) ==
    IF i > Len(rows) THEN acc
    ELSE DockLoop(rows, i + 1, DockStep(acc, rows[i]))

\* shipment -> {dock_time, lpns}, or the exception that ended the loop
shipment_lpn_map(rows) == DockLoop(rows, 1, Built(<<>>))

StockLeast(acc, lpn, least) ==
    IF ~least.ok THEN Broke(least.exc) ELSE Built(DictSet(acc.d, lpn, least))

\* a row with lpn and ts, the ts parsed into dt
StockTimed(acc, lpn, dt) ==
    IF ~dt.ok THEN Broke(dt.exc)
    ELSE StockLeast(acc, lpn, MinDt(DictGet(acc.d, lpn, dt), dt))

\* one iteration of the loop over the activity 51 rows
StockStep(acc, r) ==
    IF ~acc.ok THEN acc
    ELSE IF ~(Truthy(Get(r, "container_nbr", JNull))
              /\ Truthy(Get(r, "create_ts", JNull)))
    THEN acc
    ELSE StockTimed(acc, Get(r, "container_nbr", JNull),
                    ParseTs(Get(r, "create_ts", JNull)))

RECURSIVE StockLoop(_, _, _)
StockLoop(act51_rows, i, acc) ==
    IF i > Len(act51_rows) THEN acc
    ELSE StockLoop(act51_rows, i + 1, StockStep(acc, act51_rows[i]))

\* lpn -> earliest putaway time, or the exception that ended the loop
lpn_stock_times(act51_rows) == StockLoop(act51_rows, 1, Built(<<>>))

\* what the loop over the shipments has got so far
Sampled(samples, cs) == [ok |-> TRUE, exc |-> "none", samples |-> samples, calls |-> cs]
Stopped(exc, acc) == [acc EXCEPT !.ok = FALSE, !.exc = exc]

\* ElapsedStep without the `if dts >= 0` test
ElapsedStep_keeps_negative(acc, stock_time, dock_time) ==
    IF ~acc.ok THEN acc
    ELSE IF stock_time.aware # dock_time.aware THEN Stopped("TypeError", acc)
    ELSE [acc EXCEPT !.samples = Append(@, Instant(stock_time) - Instant(dock_time))]

\* one elapsed time stock_time - dock_time, in seconds, a negative one dropped;
\* subtracting an aware and a naive datetime raises
ElapsedStep(acc, stock_time, dock_time) ==
    IF ~acc.ok THEN acc
    ELSE IF stock_time.aware # dock_time.aware THEN Stopped("TypeError", acc)
    ELSE IF Instant(stock_time) - Instant(dock_time) >= 0
    THEN [acc EXCEPT !.samples = Append(@, Instant(stock_time) - Instant(dock_time))]
    ELSE acc

RECURSIVE ElapsedLoop(_, _, _, _)
ElapsedLoop(stock, dock_time, i, acc) ==
    IF i > Len(stock) THEN acc
    ELSE ElapsedLoop(stock, dock_time, i + 1, ElapsedStep(acc, stock[i].v, dock_time))

\* the orders in which list(set) may enumerate a set
Perms(S) == {q \in [1..Cardinality(S) -> S] : \A x \in S : \E i \in DOMAIN q : q[i] = x}

\* one enumeration order of the lpns of every shipment
LpnOrders(map) ==
    {f \in [1..Len(map) -> UNION {Perms(map[i].v.lpns) : i \in 1..Len(map)}] :
        \A i \in 1..Len(map) : f[i] \in Perms(map[i].v.lpns)}

LpnCall(facility, lpns) ==
    Call("inventory_history", facility,
         Join([j \in 1..Len(lpns) |-> lpns[j].s], <<",">>), 51)

\* the stock times of a shipment whose call was answered
ShipmentStocked(acc, dock_time, stock) ==
    IF ~stock.ok THEN Stopped(stock.exc, acc)
    ELSE ElapsedLoop(stock.d, dock_time, 1, acc)

\* one iteration of the loop over the shipments: the i-th shipment issues the
\* (i+1)-th call; a failed call skips the shipment
ShipmentStep(acc, data, act51_resp) ==
    IF ~acc.ok THEN acc
    ELSE IF ~act51_resp.ok THEN acc
    ELSE ShipmentStocked(acc, data.dock_time,
                         lpn_stock_times(safe_wms_json(act51_resp)))

ShipmentCalled(acc, call) ==
    IF acc.ok THEN [acc EXCEPT !.calls = Append(@, call)] ELSE acc

RECURSIVE ShipmentLoop(_, _, _, _, _)
ShipmentLoop(map, orders, facility, i, acc) ==
    IF i > Len(map) THEN acc
    ELSE ShipmentLoop(map, orders, facility, i + 1,
                      ShipmentStep(ShipmentCalled(acc, LpnCall(facility, orders[i])),
                                   map[i].v, upstream[i + 1]))

RECURSIVE SumSeq(_)
SumSeq(q) == IF q = <<>> THEN 0 ELSE q[1] + SumSeq(Tail(q))

\* n/d rounded to the nearest integer, a tie going to the even one (d > 0, n >= 0)
RoundHalfEven(n, d) ==
    LET q == n \div d
        r == n % d
    IN  IF 2 * r < d THEN q
        ELSE IF 2 * r > d THEN q + 1
        ELSE IF q % 2 = 0 THEN q ELSE q + 1

\* round(sum(minutes) / len(minutes), 2) in hundredths of a minute, 0 when empty;
\* the samples are kept in seconds
avg_dts(samples) ==
    IF samples = <<>> THEN 0
    ELSE RoundHalfEven(SumSeq(samples) * 100, 60 * Len(samples))

DockToStockSummary(rows, samples) ==
    [total_units_received |-> TotalUnits(rows, "adj_qty"),
     total_shipment_received |-> Cardinality(Unique(rows, "shipment_nbr")),
     total_containers_received |-> Cardinality(Unique(rows, "container_nbr")),
     avg_dock_to_stock_minutes |-> avg_dts(samples)]

\* FINAL SUMMARY and FINAL RESPONSE
DockToStockReport(days, rows, l) ==
    IF ~l.ok THEN Raise(l.exc, l.calls)
    ELSE Return([status |-> "success", from_date |-> Today - days, to_date |-> Today,
                 summary |-> DockToStockSummary(rows, l.samples)], l.calls)

\* ACTIVITY 51 - STOCK TIME LOOKUP, the lpns of a shipment in any order
DockToStockLookup(days, facility, rows, map) ==
    IF ~map.ok THEN Raise(map.exc, <<HistoryCall(facility, 1)>>)
    ELSE \E orders \in LpnOrders(map.d) :
           DockToStockReport(days, rows,
               ShipmentLoop(map.d, orders, facility, 1,
                            Sampled(<<>>, <<HistoryCall(facility, 1)>>)))

\* KPI CALCULATIONS FOR ACTIVITY 1
DockToStockRows(days, facility, rows) ==
    DockToStockLookup(days, facility, rows, shipment_lpn_map(rows))

\* int(days), then ACTIVITY 1 - LPN RECEIVED DATA
DockToStock(days, facility) ==
    IF ~days.ok THEN Return(ErrorResult("Days must be numeric"), <<>>)
    ELSE IF ~upstream[1].ok
    THEN Return(ErrorResult(upstream[1].exc), <<HistoryCall(facility, 1)>>)
    ELSE DockToStockRows(days.n, facility, safe_wms_json(upstream[1]))

receiving_kpi1 ==
    /\ Serving("app", "/receivingKPI1")
    /\ IF MissingAny(request.args, {"days", "facility"})
       THEN Return(ErrorResult("Missing required params"), <<>>)
       ELSE DockToStock(int(request.args["days"]), request.args["facility"])

-----------------------------------------------------------------------------
(* The requests and upstream fixtures one behaviour is drawn from *)

\* the dict with the given keys, a key whose value is Absent left out
Absent == [t |-> "absent"]

Row(fields) ==
    JDict([k \in {x \in DOMAIN fields : fields[x] # Absent} |-> fields[k]])

A == JStr(<<"A">>)
B == JStr(<<"B">>)
Facility == <<"F", "1">>
ADate == <<"2", "0", "2", "4", "-", "0", "1", "-", "0", "5">>

\* every way to leave out, leave empty or fill in the named arguments
ArgSets(names, values) ==
    UNION {{f \in [K -> UNION {values[n] : n \in names} \cup {<<>>}] :
               \A n \in K : f[n] \in values[n] \cup {<<>>}} : K \in SUBSET names}

Req(app, path, args) == [app |-> app, path |-> path, args |-> args]

\* the request and the upstream outcomes of this behaviour
Given(req, ups) ==
    /\ request = req
    /\ upstream = ups

\* a call that yields the rows r as a bare list, or, for the ways other than
\* "list", a body that is not JSON or a failure of the call
Outcome(way, r) ==
    CASE way = "list" -> Answered(200, JList(r))
      [] way = "invalid" -> Answered(200, JInvalid)
      [] OTHER -> Failed(way)

\* an empty result set also stands for the other ways a call can yield no rows
Ways(n, others) == {"list"} \cup (IF n = 0 THEN others ELSE {})

Failing == {"Timeout", "ConnectionError"}

HttpStatuses == {200, 299, 300, 404, 500}

\* bodies of the single-call endpoints: every shape of section 4.1
BodyRowKinds ==
    {Row([item_id__code |-> A, ord_qty |-> JStr(<<"5">>)]),
     Row([item_id__code |-> B, ord_qty |-> Absent])}

BodyLists == UNION {[1..m -> BodyRowKinds] : m \in 0..MaxBodyRows}

SlotValues == {JList(l) : l \in BodyLists} \cup {JStr(<<"x">>), JNull, JNum(0)}

DictBodies ==
    {JDict(d) : d \in UNION {
        {f \in [K -> SlotValues \cup {A}] :
            \A k \in K : IF k = "item_id__code" THEN f[k] = A ELSE f[k] \in SlotValues} :
        K \in SUBSET {"results", "rows", "item_id__code"}}}

ScalarBodies ==
    {JStr(<<>>), JStr(<<"o", "k">>), JNum(0), JNum(7), JBool(TRUE), JBool(FALSE), JNull}

Bodies == {JInvalid} \cup ScalarBodies \cup {JList(l) : l \in BodyLists} \cup DictBodies

PlainOutcome == Answered(200, JList(<<>>))

\* every argument combination against one plain answer, and the valid
\* arguments against every outcome
SingleCall(app, path, names, values, valid) ==
    \/ \E a \in ArgSets(names, values) : Given(Req(app, path, a), <<PlainOutcome>>)
    \/ \E a \in valid, way \in Failing : Given(Req(app, path, a), <<Failed(way)>>)
    \/ \E a \in valid, c \in HttpStatuses, b \in Bodies :
          Given(Req(app, path, a), <<Answered(c, b)>>)

OrderArgs ==
    [from_date |-> {ADate}, to_date |-> {ADate}, facility_code |-> {Facility}]
ItemArgs == [items |-> {<<"A">>, <<"A", ",", "B">>}, facility |-> {Facility}]
DaysArgs ==
    [days |-> {<<"2">>, <<"a", "b", "c">>, <<"1", ".", "5">>}, facility |-> {Facility}]

ValidOrderArgs == {[from_date |-> ADate, to_date |-> ADate, facility_code |-> Facility]}
ValidItemArgs == {[items |-> <<"A", ",", "B">>, facility |-> Facility]}
ValidDaysArgs == {[days |-> <<"2">>, facility |-> Facility]}

SimpleScenarios ==
    \/ SingleCall("app", "/getOrder", {"from_date", "to_date", "facility_code"},
                  OrderArgs, ValidOrderArgs)
    \/ SingleCall("app", "/getOnhand", {"items", "facility"}, ItemArgs, ValidItemArgs)
    \/ SingleCall("app", "/existMoveReq", {"items", "facility"}, ItemArgs,
                  ValidItemArgs)
    \/ SingleCall("getonhand", "/getOnhand", {"items", "facility"}, ItemArgs,
                  ValidItemArgs)

\* result sets of /replenSummary: item code x quantity
QtyRows(itemKey, qtyKey) ==
    {Row(itemKey :> r[1] @@ qtyKey :> r[2]) : r \in
        {<<A, JNum(1)>>, <<A, JStr(<<"2">>)>>, <<B, JNum(1)>>, <<B, JStr(<<"2">>)>>,
         <<A, JStr(<<"a", "b", "c">>)>>, <<A, JNull>>, <<A, Absent>>,
         <<Absent, JStr(<<"2">>)>>, <<JNull, JStr(<<"a", "b", "c">>)>>}}

\* every argument combination of a `days, facility` endpoint against plain answers
DaysScenarios(path, ncalls) ==
    \E a \in ArgSets({"days", "facility"}, DaysArgs) :
        Given(Req("app", path, a), [i \in 1..ncalls |-> PlainOutcome])

\* the valid arguments against every three result sets of MaxRows rows in all;
\* without order rows the two further calls are not issued, and their outcomes
\* are left plain
ReplenScenarios ==
    \/ DaysScenarios("/replenSummary", 3)
    \/ \E a \in ValidDaysArgs :
       \E l \in {x \in (0..MaxRows) \X (0..MaxRows) \X (0..MaxRows) :
                   /\ x[1] + x[2] + x[3] <= MaxRows
                   /\ x[1] = 0 => x[2] + x[3] = 0} :
       \E r1 \in [1..l[1] -> QtyRows("item_id__code", "ord_qty")],
          r2 \in [1..l[2] -> QtyRows("item_id__item_alternate_code", "curr_qty")],
          r3 \in [1..l[3] -> QtyRows("item_id__code", "req_qty")] :
       \E w1 \in Ways(l[1], Failing \cup {"invalid"}),
          w2 \in Ways(l[2], IF l[1] = 0 THEN {} ELSE Failing \cup {"invalid"}),
          w3 \in Ways(l[3], IF l[1] = 0 THEN {} ELSE Failing \cup {"invalid"}) :
            Given(Req("app", "/replenSummary", a),
                  <<Outcome(w1, r1), Outcome(w2, r2), Outcome(w3, r3)>>)

\* result sets of /shippingKPI and /receivingKPI
Units == {Absent, JNum(2), JStr(<<"3">>), JStr(<<"a", "b", "c">>)}
Numbers == {Absent, A, B}
Lpn1 == JStr(<<"C", "1">>)
Lpn2 == JStr(<<"C", "2">>)
Containers == {Lpn1, Lpn2}

ShippedRows ==
    {Row([units_shipped |-> u, order_nbr |-> o, container_nbr |-> c]) :
        u \in Units, o \in Numbers, c \in Containers}

ReceivedRows ==
    {Row([adj_qty |-> u, shipment_nbr |-> o, container_nbr |-> c]) :
        u \in Units, o \in Numbers, c \in Containers}

KpiScenarios ==
    \/ DaysScenarios("/shippingKPI", 1)
    \/ DaysScenarios("/receivingKPI", 1)
    \/ \E a \in ValidDaysArgs, m \in 0..MaxKpiRows :
       \E r \in [1..m -> ShippedRows], w \in Ways(m, Failing \cup {"invalid"}) :
            Given(Req("app", "/shippingKPI", a), <<Outcome(w, r)>>)
    \/ \E a \in ValidDaysArgs, m \in 0..MaxKpiRows :
       \E r \in [1..m -> ReceivedRows], w \in Ways(m, Failing \cup {"invalid"}) :
            Given(Req("app", "/receivingKPI", a), <<Outcome(w, r)>>)

\* result sets of /onTimeReceivingKPI
P1 == JStr(<<"P", "1">>)
P2 == JStr(<<"P", "2">>)
Day5 == JStr(ADate)
Day4 == JStr(<<"2", "0", "2", "4", "-", "0", "1", "-", "0", "4">>)

PoRows ==
    {Row([po_nbr |-> r[1], delivery_date |-> r[2]]) : r \in
        {<<P1, Day5>>, <<P1, Day4>>, <<P2, Day5>>, <<Absent, Day5>>, <<P1, Absent>>}}

\* receipts at noon, at the last second of the day, and on the next day; and
\* one at 20:00 five hours west of UTC, which is 01:00 of the next day in UTC
Noon5 == JStr(ADate \o <<"T", "1", "2", ":", "0", "0", ":", "0", "0", "Z">>)
Last5 == JStr(ADate \o EndOfDay)
Next6 == JStr(<<"2", "0", "2", "4", "-", "0", "1", "-", "0", "6">>
              \o <<"T", "0", "0", ":", "0", "0", ":", "0", "0", "Z">>)

West5 == JStr(ADate \o <<"T", "2", "0", ":", "0", "0", ":", "0", "0",
                         "-", "0", "5", ":", "0", "0">>)

ReceiptRows ==
    {Row([po_nbr |-> r[1], create_ts |-> r[2]]) : r \in
        {<<P1, Noon5>>, <<P1, Last5>>, <<P1, Next6>>, <<P2, Noon5>>, <<P2, Next6>>,
         <<P1, West5>>,
         <<Absent, Noon5>>, <<P1, Absent>>, <<P1, JNum(5)>>}}

OnTimeScenarios ==
    \/ DaysScenarios("/onTimeReceivingKPI", 2)
    \/ \E a \in ValidDaysArgs, m1 \in 0..MaxPoRows, m2 \in 0..MaxReceiptRows :
       \E r1 \in [1..m1 -> PoRows], r2 \in [1..m2 -> ReceiptRows] :
       \E w1 \in Ways(m1, Failing), w2 \in Ways(m2, Failing) :
            Given(Req("app", "/onTimeReceivingKPI", a),
                  <<Outcome(w1, r1), Outcome(w2, r2)>>)

\* result sets of /receivingKPI1
S1 == JStr(<<"S", "1">>)
S2 == JStr(<<"S", "2">>)
At(hh, mi, tz) == JStr(ADate \o <<"T">> \o hh \o <<":">> \o mi \o <<":", "0", "0">> \o tz)

DockRows ==
    {Row([shipment_nbr |-> r[1], container_nbr |-> r[2], create_ts |-> r[3],
          adj_qty |-> JStr(<<"5">>)]) : r \in
        {<<S1, Lpn1, At(<<"1", "0">>, <<"0", "0">>, <<"Z">>)>>,
         <<S1, Lpn2, At(<<"0", "9">>, <<"0", "0">>, <<"Z">>)>>,
         <<S2, Lpn2, At(<<"1", "0">>, <<"0", "0">>, <<"Z">>)>>,
         <<S1, Lpn1, At(<<"1", "0">>, <<"0", "0">>, <<>>)>>,
         <<S1, Lpn1, JStr(<<"a", "b", "c">>)>>,
         <<S1, Lpn1, Absent>>,
         <<Absent, Lpn1, At(<<"1", "0">>, <<"0", "0">>, <<"Z">>)>>}}

StockRows ==
    {Row([container_nbr |-> r[1], create_ts |-> r[2]]) : r \in
        {<<Lpn1, At(<<"1", "0">>, <<"4", "5">>, <<"Z">>)>>,
         <<Lpn1, At(<<"0", "9">>, <<"3", "0">>, <<"Z">>)>>,
         <<Lpn2, At(<<"1", "1">>, <<"0", "0">>, <<"Z">>)>>,
         <<Lpn1, At(<<"1", "0">>, <<"4", "5">>, <<>>)>>,
         <<Lpn1, JStr(<<"a", "b", "c">>)>>,
         <<Absent, At(<<"1", "0">>, <<"4", "5">>, <<"Z">>)>>}}

\* a follow-up call fails, or yields up to n putaway rows
StockOutcomes(n) ==
    {Failed("Timeout")}
    \cup UNION {{Answered(200, JList(r)) : r \in [1..m -> StockRows]} : m \in 0..n}

\* the outcomes of the follow-up calls of k shipments: up to MaxStockRows rows
\* for the first shipment, at most one row for every further one
FollowUps(k) ==
    IF k = 0 THEN {<<>>}
    ELSE {<<x>> \o t : x \in StockOutcomes(MaxStockRows),
                       t \in [1..k - 1 -> StockOutcomes(1)]}

\* the shipments of the received rows, in the order of their first row
RECURSIVE ShipmentsIn(_)
ShipmentsIn(rows) ==
    IF rows = <<>> THEN <<>>
    ELSE LET before == ShipmentsIn(SubSeq(rows, 1, Len(rows) - 1))
             shipment == Get(rows[Len(rows)], "shipment_nbr", JNull)
         IN  IF Truthy(shipment) /\ \A i \in 1..Len(before) : before[i] # shipment
             THEN Append(before, shipment) ELSE before

\* the containers received in a shipment
LpnsOf(rows, shipment) ==
    {Get(rows[i], "container_nbr", JNull) : i \in
        {j \in 1..Len(rows) : Get(rows[j], "shipment_nbr", JNull) = shipment}}

\* the upstream applies the container_nbr__in filter of a follow-up call: its
\* answer holds no putaway row of a container that was not asked for
Filtered(outcome, lpns) ==
    outcome.ok =>
        \A i \in 1..Len(outcome.body.items) :
            Get(outcome.body.items[i], "container_nbr", JNull) \in lpns \cup {JNull}

\* one received result set and one outcome for the follow-up call of each of
\* its shipments
DockScenarios ==
    \/ DaysScenarios("/receivingKPI1", 1)
    \/ \E a \in ValidDaysArgs, way \in Failing :
            Given(Req("app", "/receivingKPI1", a), <<Failed(way)>>)
    \/ \E a \in ValidDaysArgs, m \in 0..MaxDockRows :
       \E r \in [1..m -> DockRows] :
       \E f \in {g \in FollowUps(Cardinality(Unique(r, "shipment_nbr"))) :
                    \A i \in 1..Len(g) : Filtered(g[i], LpnsOf(r, ShipmentsIn(r)[i]))} :
            Given(Req("app", "/receivingKPI1", a), <<Answered(200, JList(r))>> \o f)

-----------------------------------------------------------------------------
(* The specification *)

Init ==
    /\ pc = "idle"
    /\ response = NoResponse
    /\ raised = "none"
    /\ calls = <<>>
    /\ \/ SimpleScenarios
       \/ ReplenScenarios
       \/ KpiScenarios
       \/ OnTimeScenarios
       \/ DockScenarios

Next ==
    \/ get_order
    \/ get_onhand
    \/ exist_move_req
    \/ getonhand_get_onhand
    \/ replen_summary
    \/ shipping_kpi
    \/ receiving_kpi
    \/ on_time_receiving_kpi
    \/ receiving_kpi1

Spec == Init /\ [][Next]_vars

-----------------------------------------------------------------------------
(* What the properties speak about *)

Done == pc = "done"

\* the handler returned a JSON body with the given status
Answers(status) == Done /\ raised = "none" /\ response.status = status

On(path) == Done /\ request.path = path

\* the required parameters of each path (section 6 of the specification)
RequiredParams ==
    [p \in {"/getOrder", "/getOnhand", "/existMoveReq", "/replenSummary",
            "/shippingKPI", "/receivingKPI", "/onTimeReceivingKPI", "/receivingKPI1"} |->
        CASE p = "/getOrder" -> {"from_date", "to_date", "facility_code"}
          [] p \in {"/getOnhand", "/existMoveReq"} -> {"items", "facility"}
          [] OTHER -> {"days", "facility"}]

SomeParamMissingOrEmpty ==
    \E n \in RequiredParams[request.path] :
        n \notin DOMAIN request.args \/ request.args[n] = <<>>

\* the rows of an upstream result set that came as a bare list
ListedRows(outcome) ==
    IF outcome.ok /\ outcome.body.t = "list" THEN outcome.body.items ELSE <<>>

\* the truthy values of a field over a result set
ItemsIn(rows, key) ==
    {v \in {IF key \in DOMAIN rows[i].d THEN rows[i].d[key] ELSE JNull :
              i \in 1..Len(rows)} : v.t = "str" /\ v.s # <<>>}

OrderedItems == ItemsIn(ListedRows(upstream[1]), "item_id__code")
OnhandItems == ItemsIn(ListedRows(upstream[2]), "item_id__item_alternate_code")
MoItems == ItemsIn(ListedRows(upstream[3]), "item_id__code")

\* a /replenSummary request that was answered with a report
Report == On("/replenSummary") /\ Answers("success")

ReportRows == response.rows.items

\* the report rows of an item code
RowsFor(item) == {i \in 1..Len(ReportRows) : ReportRows[i].d["item"] = item}

-----------------------------------------------------------------------------
(* C1 *)

IsListAt(body, key) ==
    body.t = "dict" /\ key \in DOMAIN body.d /\ body.d[key].t = "list"

\* the stated priority, as a relation between a decoded body and the rows
Normalized(body, rows) ==
    /\ body.t = "str" => rows = <<>>
    /\ body.t = "list" => rows = body.items
    /\ IsListAt(body, "results") => rows = body.d["results"].items
    /\ (IsListAt(body, "rows") /\ ~IsListAt(body, "results")) =>
           rows = body.d["rows"].items
    /\ (body.t = "dict" /\ ~IsListAt(body, "rows") /\ ~IsListAt(body, "results")) =>
           rows = <<body>>
    /\ body.t \in {"num", "bool", "null", "invalid"} => rows = <<>>

NormalizingPaths == {"/getOrder", "/getOnhand", "/existMoveReq"}

\* C1: whatever body the upstream answers with, the handlers of app.py that
\* return the normalized rows return them as the stated priority prescribes
\* (string: none; list: itself; results list before rows list; other mapping:
\* the mapping alone; any other shape or undecodable body: none) and no
\* exception escapes.
C1_NormalizerPriority ==
    (/\ Done /\ request.app = "app" /\ request.path \in NormalizingPaths
     /\ calls # <<>> /\ upstream[1].ok)
    => /\ Answers("success")
       /\ response.rows.t = "list"
       /\ Normalized(upstream[1].body, response.rows.items)

\* a body with a results list and a different rows list was normalized
C1_Witness ==
    /\ On("/getOrder") /\ calls # <<>> /\ upstream[1].ok
    /\ IsListAt(upstream[1].body, "results") /\ IsListAt(upstream[1].body, "rows")
    /\ upstream[1].body.d["results"] # upstream[1].body.d["rows"]
    /\ Answers("success")
    /\ response.rows = upstream[1].body.d["results"]

-----------------------------------------------------------------------------
(* C2 *)

\* C2: a request with a required parameter missing or empty is answered with
\* status = error and a message, and no upstream call is issued.
C2_MissingParamShortCircuits ==
    (Done /\ SomeParamMissingOrEmpty)
    => /\ Answers("error")
       /\ "message" \in DOMAIN response
       /\ calls = <<>>

\* /replenSummary was asked with days given and facility empty
C2_Witness ==
    /\ On("/replenSummary")
    /\ "days" \in DOMAIN request.args /\ request.args["days"] = <<"2">>
    /\ "facility" \in DOMAIN request.args /\ request.args["facility"] = <<>>
    /\ Answers("error")
    /\ calls = <<>>

-----------------------------------------------------------------------------
(* C3 *)

TakesDays ==
    request.path \in {"/replenSummary", "/shippingKPI", "/receivingKPI",
                      "/onTimeReceivingKPI"}

DaysNotAnInteger ==
    /\ "days" \in DOMAIN request.args
    /\ request.args["days"] \in {<<"a", "b", "c">>, <<"1", ".", "5">>}

\* C3: with every required parameter given, a days value that is not an
\* integer is answered with status = error on every endpoint that takes days,
\* and no upstream call is issued.
C3_NonIntegerDaysIsValidationError ==
    (Done /\ TakesDays /\ ~SomeParamMissingOrEmpty /\ DaysNotAnInteger)
    => /\ Answers("error")
       /\ calls = <<>>

-----------------------------------------------------------------------------
(* C4 *)

\* an issued call failed: the i-th call gets the i-th upstream outcome
SomeCallFailed == \E i \in 1..Len(calls) : ~upstream[i].ok

\* C4: when an outbound call fails, the handler answers with status = error;
\* no exception escapes it.
C4_CallFailureIsStructuredError ==
    (Done /\ SomeCallFailed) => Answers("error")

-----------------------------------------------------------------------------
(* C5 *)

\* C5: on /getOrder, /getOnhand and /existMoveReq an upstream 404 is answered
\* with success, noData and no rows, and any other status outside 200..299 with
\* status = error carrying the status code and the raw body.
C5_UpstreamStatusDecides ==
    (/\ Done /\ request.path \in NormalizingPaths
     /\ calls # <<>> /\ upstream[1].ok)
    => LET code == upstream[1].status_code
       IN  /\ code = 404 =>
                /\ Answers("success")
                /\ response.noData = TRUE
                /\ response.rows = JList(<<>>)
           /\ (code # 404 /\ ~(200 <= code /\ code < 300)) =>
                /\ Answers("error")
                /\ "httpStatus" \in DOMAIN response /\ response.httpStatus = code
                /\ "body" \in DOMAIN response /\ response.body = upstream[1].body

-----------------------------------------------------------------------------
(* C6 *)

\* C6: the report has exactly one row for every item code of the order
\* summary and no row for any other item code.
C6_JoinCompleteness ==
    Report =>
        /\ \A item \in OrderedItems : Cardinality(RowsFor(item)) = 1
        /\ \A i \in 1..Len(ReportRows) : ReportRows[i].d["item"] \in OrderedItems

\* a report over orders for A alone while the on-hand result set mentions B
C6_Witness ==
    /\ Report
    /\ OrderedItems = {A}
    /\ B \in OnhandItems
    /\ Len(ReportRows) = 1
    /\ ReportRows[1].d["item"] = A

-----------------------------------------------------------------------------
(* C7 *)

\* the sum of the quantities of the rows of a result set that carry the item
RECURSIVE QtySum(_, _, _, _)
QtySum(rows, itemKey, qtyKey, item) ==
    IF rows = <<>> THEN 0
    ELSE LET row == rows[1]
             mine == itemKey \in DOMAIN row.d /\ row.d[itemKey] = item
             qty == IF qtyKey \in DOMAIN row.d THEN float(row.d[qtyKey]).n ELSE 0
         IN  (IF mine THEN qty ELSE 0) + QtySum(Tail(rows), itemKey, qtyKey, item)

\* C7: every quantity of a report row is the sum over all the rows of its
\* result set that carry the item code: ordered, on-hand and pending alike.
C7_QuantitiesAreSums ==
    Report =>
        \A i \in 1..Len(ReportRows) :
            LET row == ReportRows[i].d
            IN  /\ row["ordered_qty"] =
                     JNum(QtySum(ListedRows(upstream[1]), "item_id__code", "ord_qty",
                                 row["item"]))
                /\ row["onhand_qty"] =
                     JNum(QtySum(ListedRows(upstream[2]), "item_id__item_alternate_code",
                                 "curr_qty", row["item"]))
                /\ row["pending_mo_qty"] =
                     JNum(QtySum(ListedRows(upstream[3]), "item_id__code", "req_qty",
                                 row["item"]))

-----------------------------------------------------------------------------
(* C8 *)

\* a row of the result set carries a quantity that is a non-numeric string or null
Unparsable(rows, qtyKey) ==
    \E i \in 1..Len(rows) :
        /\ qtyKey \in DOMAIN rows[i].d
        /\ rows[i].d[qtyKey].t \in {"str", "null"}
        /\ ~float(rows[i].d[qtyKey]).ok

SomeQuantityUnparsable ==
    \/ Unparsable(ListedRows(upstream[1]), "ord_qty")
    \/ Unparsable(ListedRows(upstream[2]), "curr_qty")
    \/ Unparsable(ListedRows(upstream[3]), "req_qty")

\* C8: a quantity that does not parse does not fail the request: with valid
\* parameters and no failed call the handler still answers with a success report.
C8_ParseFailureIsZero ==
    (/\ On("/replenSummary") /\ ~SomeParamMissingOrEmpty /\ ~DaysNotAnInteger
     /\ ~SomeCallFailed /\ SomeQuantityUnparsable)
    => Answers("success")

-----------------------------------------------------------------------------
(* C9 *)

\* C9: an item code of the order summary that the on-hand result set does not
\* mention has a row with onhand_qty = 0, and one that the movement-request
\* result set does not mention a row with pending_mo_qty = 0.
C9_ZeroDefault ==
    Report =>
        \A item \in OrderedItems :
            /\ item \notin OnhandItems =>
                 \E i \in RowsFor(item) : ReportRows[i].d["onhand_qty"] = JNum(0)
            /\ item \notin MoItems =>
                 \E i \in RowsFor(item) : ReportRows[i].d["pending_mo_qty"] = JNum(0)

\* orders for A and B, on-hand stock for B alone and no movement request
C9_Witness ==
    /\ Report
    /\ OrderedItems = {A, B}
    /\ OnhandItems = {B}
    /\ MoItems = {}
    /\ \E i \in RowsFor(A) :
          /\ ReportRows[i].d["onhand_qty"] = JNum(0)
          /\ ReportRows[i].d["pending_mo_qty"] = JNum(0)
    /\ \E i \in RowsFor(B) : ReportRows[i].d["onhand_qty"] # JNum(0)

-----------------------------------------------------------------------------
(* C10 *)

\* C10: the rows of a report are in strictly ascending order of item code.
C10_RowsAscendByItem ==
    Report =>
        \A i, j \in 1..Len(ReportRows) :
            i < j => StrLess(ReportRows[i].d["item"].s, ReportRows[j].d["item"].s)

\* the upstream listed an order for B before one for A; the report has A first
C10_Witness ==
    /\ Report
    /\ Len(ListedRows(upstream[1])) = 2
    /\ Get(ListedRows(upstream[1])[1], "item_id__code", JNull) = B
    /\ Get(ListedRows(upstream[1])[2], "item_id__code", JNull) = A
    /\ Len(ReportRows) = 2
    /\ ReportRows[1].d["item"] = A
    /\ ReportRows[2].d["item"] = B

-----------------------------------------------------------------------------
(* C11 *)

\* an /onTimeReceivingKPI request that was answered with a summary
OnTimeReport ==
    /\ On("/onTimeReceivingKPI") /\ Answers("success")
    /\ "message" \notin DOMAIN response

PoRowsGiven == ListedRows(upstream[1])
ReceiptsGiven == ListedRows(upstream[2])

\* the expected timestamps the purchase orders give for a PO number
ExpectedOf(po) ==
    {PoRowsGiven[i].d["delivery_date"].s \o EndOfDay : i \in
        {j \in 1..Len(PoRowsGiven) :
            /\ Get(PoRowsGiven[j], "po_nbr", JNull) = po
            /\ Truthy(Get(PoRowsGiven[j], "delivery_date", JNull))}}

\* the receipt events with a timestamp whose PO number is in the expected map,
\* in upstream order
RECURSIVE EventsOf(_)
EventsOf(rows) ==
    IF rows = <<>> THEN <<>>
    ELSE (IF /\ Truthy(Get(rows[1], "po_nbr", JNull))
             /\ Truthy(Get(rows[1], "create_ts", JNull))
             /\ ExpectedOf(Get(rows[1], "po_nbr", JNull)) # {}
          THEN <<rows[1]>> ELSE <<>>) \o EventsOf(Tail(rows))

\* the instant a is at or before the instant b, both ISO 8601 timestamps
AtOrBefore(a, b) ==
    Instant(fromisoformat(ReplaceZ(a))) <= Instant(fromisoformat(ReplaceZ(b)))

DetailRows == response.rows.items

\* C11: the detail rows are the receipt events whose PO number is in the
\* expected map, one row per event and no row for any other event; a row is
\* ON_TIME if and only if its actual timestamp is at or before the expected
\* timestamp of its PO, and LATE otherwise; the counters count these rows.
C11_OnTimeClassification ==
    OnTimeReport =>
        /\ Len(DetailRows) = Len(EventsOf(ReceiptsGiven))
        /\ response.summary.total_receipts = Len(EventsOf(ReceiptsGiven))
        /\ \A i \in 1..Len(DetailRows) :
              /\ DetailRows[i].d["po_nbr"] = EventsOf(ReceiptsGiven)[i].d["po_nbr"]
              /\ DetailRows[i].d["actual_ts"] = EventsOf(ReceiptsGiven)[i].d["create_ts"]
              /\ DetailRows[i].d["expected_ts"].s \in ExpectedOf(DetailRows[i].d["po_nbr"])
              /\ DetailRows[i].d["status"].s \in {ON_TIME, LATE}
              /\ DetailRows[i].d["status"].s = ON_TIME <=>
                     AtOrBefore(DetailRows[i].d["actual_ts"].s,
                                DetailRows[i].d["expected_ts"].s)
        /\ response.summary.on_time_receipts =
               Cardinality({i \in 1..Len(DetailRows) : DetailRows[i].d["status"].s = ON_TIME})
        /\ response.summary.late_receipts =
               Cardinality({i \in 1..Len(DetailRows) : DetailRows[i].d["status"].s = LATE})

-----------------------------------------------------------------------------
(* C12 *)

\* a /receivingKPI1 request that was answered with a summary
DockReport == On("/receivingKPI1") /\ Answers("success")

ReceivedGiven == ListedRows(upstream[1])

\* the instants of the timestamps of the rows that carry `value` under `key`
InstantsOf(rows, key, value) ==
    {Instant(ParseTs(rows[i].d["create_ts"])) : i \in
        {j \in 1..Len(rows) :
            /\ Get(rows[j], key, JNull) = value
            /\ Truthy(Get(rows[j], "create_ts", JNull))}}

Earliest(instants) == CHOOSE t \in instants : \A u \in instants : t <= u

\* the putaway rows the upstream gave for the k-th shipment, none when its
\* follow-up call failed
PutawaysGiven(k) == ListedRows(upstream[k + 1])

\* k-th shipment x container of it that has a stock time
DockedAndStocked ==
    {p \in (1..Len(ShipmentsIn(ReceivedGiven))) \X Containers :
        /\ p[2] \in LpnsOf(ReceivedGiven, ShipmentsIn(ReceivedGiven)[p[1]])
        /\ InstantsOf(PutawaysGiven(p[1]), "container_nbr", p[2]) # {}}

\* stock time - dock time of such a pair, in seconds
ElapsedOf(p) ==
    Earliest(InstantsOf(PutawaysGiven(p[1]), "container_nbr", p[2]))
    - Earliest(InstantsOf(ReceivedGiven, "shipment_nbr", ShipmentsIn(ReceivedGiven)[p[1]]))

NonNegative == {p \in DockedAndStocked : ElapsedOf(p) >= 0}

RECURSIVE ElapsedSum(_)
ElapsedSum(pairs) ==
    IF pairs = {} THEN 0
    ELSE LET p == CHOOSE q \in pairs : TRUE
         IN  ElapsedOf(p) + ElapsedSum(pairs \ {p})

\* v hundredths of a minute is secs / n seconds rounded to two decimals of a minute:
\* |v / 100 - secs / (60 n)| <= 1 / 200
IsRoundedMean(v, secs, n) ==
    /\ 2 * (60 * n * v - 100 * secs) <= 60 * n
    /\ 2 * (100 * secs - 60 * n * v) <= 60 * n

-----------------------------------------------------------------------------
(* C13 *)

\* C13: when an upstream call made while serving a request failed, the
\* request is not answered with status = success.
C13_NoPartialSuccess ==
    (Done /\ SomeCallFailed) => ~Answers("success")

-----------------------------------------------------------------------------
(* C14 *)

\* a /replenSummary request that got as far as an order summary: valid
\* parameters, the orders call answered, every ordered quantity a number
Summarized ==
    /\ On("/replenSummary") /\ ~SomeParamMissingOrEmpty /\ ~DaysNotAnInteger
    /\ upstream[1].ok
    /\ ~Unparsable(ListedRows(upstream[1]), "ord_qty")

\* the comma-separated lists that name exactly the item codes of the order summary
ItemLists ==
    {Join([i \in 1..Len(q) |-> q[i].s], <<",">>) : q \in Perms(OrderedItems)}

IsCallOf(call, entity, facility) ==
    call.entity = entity /\ call.facility = facility /\ call.activity = 0

\* C14: the orders call is issued first; with an empty order summary the
\* answer is status = success with rows = [] and no further call is issued;
\* otherwise, no call failing, exactly one on-hand call and then exactly one
\* movement-request call follow, each for exactly the item codes of the
\* order summary.
C14_GatedChain ==
    Summarized =>
        /\ Len(calls) >= 1
        /\ IsCallOf(calls[1], "order_dtl", request.args["facility"])
        /\ calls[1].item_list = <<>>
        /\ OrderedItems = {} =>
               /\ Answers("success") /\ ReportRows = <<>>
               /\ Len(calls) = 1
        /\ (OrderedItems # {} /\ ~SomeCallFailed) =>
               /\ Len(calls) = 3
               /\ IsCallOf(calls[2], "inventory", request.args["facility"])
               /\ IsCallOf(calls[3], "movement_request_dtl", request.args["facility"])
               /\ calls[2].item_list \in ItemLists
               /\ calls[3].item_list \in ItemLists

-----------------------------------------------------------------------------
(* C15 *)

Summary == response.summary

\* the fraction num / den is the number x
IsNumber(fraction, x) == fraction.den > 0 /\ fraction.num = x * fraction.den

\* C15: in a response with a summary, total_receipts = on_time_receipts +
\* late_receipts = the number of detail rows; on_time_percent is 0 when
\* total_receipts is 0, else on_time_receipts / total_receipts * 100, and lies
\* between 0 and 100.
C15_SummaryAddsUp ==
    OnTimeReport =>
        /\ Summary.total_receipts = Summary.on_time_receipts + Summary.late_receipts
        /\ Summary.total_receipts = Len(DetailRows)
        /\ Summary.on_time_receipts >= 0 /\ Summary.late_receipts >= 0
        /\ Summary.total_receipts = 0 => IsNumber(Summary.on_time_percent, 0)
        /\ Summary.total_receipts > 0 =>
               /\ Summary.on_time_percent.den > 0
               /\ Summary.on_time_percent.num * Summary.total_receipts =
                      Summary.on_time_receipts * 100 * Summary.on_time_percent.den
        /\ Summary.on_time_percent.num >= 0
        /\ Summary.on_time_percent.num <= 100 * Summary.on_time_percent.den

\* one receipt on time and one late: 50 percent
C15_Witness ==
    /\ OnTimeReport
    /\ Summary.total_receipts = 2
    /\ Summary.on_time_receipts = 1
    /\ Summary.late_receipts = 1
    /\ IsNumber(Summary.on_time_percent, 50)

\* purchase orders, but no receipt of any of them: 0 percent
C15_WitnessNoReceipt ==
    /\ OnTimeReport
    /\ Summary.total_receipts = 0
    /\ IsNumber(Summary.on_time_percent, 0)

====
